---- MODULE Spec2Model ----
(***************************************************************************)
(* A model of flask_cloudy.py: the Storage facade (upload, get, contains,  *)
(* len, iteration, use) and Object.delete over a libcloud driver.          *)
(*                                                                         *)
(* Strings are sequences of one-character strings, so that the string      *)
(* functions of the code (splitext, strip, lstrip, lower, secure_filename, *)
(* slugify, the '%s__%s.%s' format) are computed and not assumed.          *)
(*                                                                         *)
(* The backend (the libcloud driver and what it stores) is the variable    *)
(* store: per container, a map from object name to the stored object.      *)
(* Every driver call is one atomic step; the code between two driver calls *)
(* is local to the calling facade and is part of the step that follows.    *)
(***************************************************************************)
EXTENDS Naturals, Sequences, FiniteSets

\* ------------------------------------------------------------------ bounds

\* Number of tokens shortuuid.uuid() can return in the model.
NumTokens == 2

\* Number of calls (upload, get, contains, len, iteration, delete, use)
\* started in one behaviour of the concurrent specification.
MaxOps == 3

\* Number of calls started in one behaviour of the sequential specification.
MaxSeqOps == 3

\* ------------------------------------------------------------- characters

UpperChars == <<"A","B","C","D","E","F","G","H","I","J","K","L","M",
                "N","O","P","Q","R","S","T","U","V","W","X","Y","Z">>

LowerChars == <<"a","b","c","d","e","f","g","h","i","j","k","l","m",
                "n","o","p","q","r","s","t","u","v","w","x","y","z">>

Digits == {"0","1","2","3","4","5","6","7","8","9"}

Range(s) == {s[i] : i \in 1..Len(s)}

\* str.lower() on one character
LowerChar(c) ==
  IF c \in Range(UpperChars)
    THEN LowerChars[CHOOSE i \in 1..Len(UpperChars) : UpperChars[i] = c]
    ELSE c

\* str.lower()
Lower(s) == [i \in 1..Len(s) |-> LowerChar(s[i])]

\* the characters str.strip() removes when called without argument
Whitespace == {" "}

\* s.rfind(c), 1-based; 0 when c does not occur
RFind(s, c) ==
  IF \E i \in 1..Len(s) : s[i] = c
    THEN CHOOSE i \in 1..Len(s) : s[i] = c /\ \A j \in (i+1)..Len(s) : s[j] # c
    ELSE 0

\* s.lstrip(chars)
LStrip(s, chars) ==
  IF \A i \in 1..Len(s) : s[i] \in chars
    THEN <<>>
    ELSE SubSeq(s, CHOOSE i \in 1..Len(s) :
                      s[i] \notin chars /\ \A j \in 1..(i-1) : s[j] \in chars,
                Len(s))

\* s.rstrip(chars)
RStrip(s, chars) ==
  IF \A i \in 1..Len(s) : s[i] \in chars
    THEN <<>>
    ELSE SubSeq(s, 1, CHOOSE i \in 1..Len(s) :
                         s[i] \notin chars /\ \A j \in (i+1)..Len(s) : s[j] \in chars)

\* s.strip(chars)
Strip(s, chars) == RStrip(LStrip(s, chars), chars)

\* whether sub occurs in s at position i
OccursAt(s, sub, i) ==
  /\ i + Len(sub) - 1 <= Len(s)
  /\ \A k \in 1..Len(sub) : s[i + k - 1] = sub[k]

\* s.split(sep)[0]: the part of s before the first occurrence of sep
SplitFirst(s, sep) ==
  IF \E i \in 1..Len(s) : OccursAt(s, sep, i)
    THEN SubSeq(s, 1, (CHOOSE i \in 1..Len(s) :
                         OccursAt(s, sep, i)
                         /\ \A j \in 1..(i-1) : ~OccursAt(s, sep, j)) - 1)
    ELSE s

\* the characters of s that satisfy keep, in order
RECURSIVE FilterChars(_, _)
FilterChars(s, keep) ==
  IF s = <<>> THEN <<>>
  ELSE IF Head(s) \in keep
    THEN <<Head(s)>> \o FilterChars(Tail(s), keep)
    ELSE FilterChars(Tail(s), keep)

\* every maximal run of characters of s outside keep replaced by one sep
\* (re.sub('[^keep]+', sep, s))
RECURSIVE CollapseRuns(_, _, _, _)
CollapseRuns(s, keep, sep, inRun) ==
  IF s = <<>> THEN <<>>
  ELSE IF Head(s) \in keep
    THEN <<Head(s)>> \o CollapseRuns(Tail(s), keep, sep, FALSE)
    ELSE IF inRun
      THEN CollapseRuns(Tail(s), keep, sep, TRUE)
      ELSE <<sep>> \o CollapseRuns(Tail(s), keep, sep, TRUE)

\* ------------------------------------------------------------ name policy

\* os.path.basename
get_file_name(filename) ==
  SubSeq(filename, RFind(filename, "/") + 1, Len(filename))

\* os.path.splitext (posixpath): <<root, ext>>; the last dot of the last
\* path component starts the extension unless only dots precede it there
splitext(p) ==
  LET sep == RFind(p, "/")
      dot == RFind(p, ".")
  IN IF dot > sep /\ \E k \in (sep+1)..(dot-1) : p[k] # "."
       THEN <<SubSeq(p, 1, dot - 1), SubSeq(p, dot, Len(p))>>
       ELSE <<p, <<>>>>

\* an extension that keeps the case of the file name
get_file_extension_cased(filename) ==
  LET e == splitext(filename)[2]
  IN SubSeq(e, 2, Len(e))

\* os.path.splitext(filename)[1][1:].lower()
get_file_extension(filename) ==
  LET e == splitext(filename)[2]
  IN Lower(SubSeq(e, 2, Len(e)))

\* the characters werkzeug's secure_filename keeps: [A-Za-z0-9_.-]
SecureChars == Range(UpperChars) \cup Range(LowerChars) \cup Digits \cup {"_", ".", "-"}

\* werkzeug.utils.secure_filename on ASCII input: path separators become
\* spaces, runs of whitespace become one '_' (leading and trailing ones are
\* dropped), every character outside [A-Za-z0-9_.-] is removed, and '.' and
\* '_' are stripped from both ends
secure_filename(name) ==
  LET spaced == [i \in 1..Len(name) |-> IF name[i] = "/" THEN " " ELSE name[i]]
      joined == CollapseRuns(Strip(spaced, Whitespace),
                             {c \in Range(spaced) : c \notin Whitespace}, "_", FALSE)
  IN Strip(FilterChars(joined, SecureChars), {".", "_"})

\* the characters slugify keeps after lowercasing: [-a-z0-9]
SlugChars == Range(LowerChars) \cup Digits \cup {"-"}

\* slugify.slugify on ASCII input: lowercase, every run of other characters
\* becomes '-', runs of '-' become one, '-' stripped from both ends
slugify(text) ==
  LET replaced == CollapseRuns(Lower(text), SlugChars, "-", FALSE)
      single   == CollapseRuns(replaced, SlugChars \ {"-"}, "-", FALSE)
  IN Strip(single, {"-"})

\* -------------------------------------------------------- extension table

EXT_TEXT ==
  {<<"t","x","t">>, <<"m","d">>}

EXT_DOCUMENT ==
  {<<"r","t","f">>, <<"o","d","f">>, <<"o","d","s">>,
   <<"g","n","u","m","e","r","i","c">>, <<"a","b","w">>, <<"d","o","c">>,
   <<"d","o","c","x">>, <<"x","l","s">>, <<"x","l","s","x">>}

EXT_IMAGE ==
  {<<"j","p","g">>, <<"j","p","e","g">>, <<"j","p","e">>, <<"p","n","g">>,
   <<"g","i","f">>, <<"s","v","g">>, <<"b","m","p">>, <<"w","e","b","p">>}

EXT_AUDIO ==
  {<<"w","a","v">>, <<"m","p","3">>, <<"a","a","c">>, <<"o","g","g">>,
   <<"o","g","a">>, <<"f","l","a","c">>}

EXT_DATA ==
  {<<"c","s","v">>, <<"i","n","i">>, <<"j","s","o","n">>,
   <<"p","l","i","s","t">>, <<"x","m","l">>, <<"y","a","m","l">>,
   <<"y","m","l">>}

EXT_SCRIPT ==
  {<<"j","s">>, <<"p","h","p">>, <<"p","l">>, <<"p","y">>, <<"r","b">>,
   <<"s","h">>}

EXT_ARCHIVE ==
  {<<"g","z">>, <<"b","z","2">>, <<"z","i","p">>, <<"t","a","r">>,
   <<"t","g","z">>, <<"t","x","z">>, <<"7","z">>}

\* Storage.allowed_extensions, the class default
DefaultAllowedExtensions ==
  EXT_TEXT \cup EXT_DOCUMENT \cup EXT_IMAGE \cup EXT_AUDIO \cup EXT_DATA

\* ------------------------------------------------------------------ state

VARIABLES
  store,    \* the backend: [container -> [object name -> stored object]]
  facade,   \* [facade id -> the Storage instance, or NoFacade]
  pc,       \* [facade id -> where the call in flight on it stands]
  loc,      \* [facade id -> the local variables of the call in flight]
  ret,      \* [facade id -> what the last call through it returned or raised]
  nops,     \* the number of calls started so far
  hist,     \* the successful uploads, deletes and creates, in order
  input,    \* the upload arguments of the sequential specification
  config,   \* Storage.config, the dictionary that is an attribute of the class
  routes    \* the file-server routes registered with the Flask applications

vars == <<store, facade, pc, loc, ret, nops, hist, input, config, routes>>

\* two containers (buckets, or directories of the local provider)
Containers == {"c1", "c2"}

\* two facades constructed by the application on the same container, and the
\* facade that Storage.use yields
Originals == {"s1", "s2"}

ScopedId == "scoped"

Facades == Originals \cup {ScopedId}

\* absent arguments: name=None, prefix=None, allowed_extensions=None, no acl
NoName == <<>>

NoPrefix == <<>>

NoAllowed == {}

NoAcl == ""

\* no meta_data among the keyword arguments of upload
NoMeta == ""

\* Storage.config as the class body leaves it: config = {}
NoConfig == <<>>

\* no Storage instance
NoFacade ==
  [provider |-> "", container |-> "", driver |-> "",
   allowed_extensions |-> {}, kw |-> [provider |-> "", container |-> "",
                                      allowed_extensions |-> {}]]

\* Storage.__init__ with a provider: the instance keeps the parameters in
\* _kw, takes the given whitelist if it is not empty, constructs its own
\* driver and resolves the container
Construct(id, kw) ==
  [provider |-> kw.provider,
   container |-> kw.container,
   driver |-> id,
   allowed_extensions |-> IF kw.allowed_extensions # {}
                            THEN kw.allowed_extensions
                            ELSE DefaultAllowedExtensions,
   kw |-> kw]

\* isinstance(self.driver, local.LocalStorageDriver)
IsLocal(f) == facade[f].provider = "LOCAL"

\* the values shortuuid.uuid() can return
TokenChars == <<"p", "q", "r", "s", "u", "v">>

Tokens == {<<TokenChars[i]>> : i \in 1..NumTokens}

\* a get_object that never finds the object
GetObjectNeverFound(c, object_name) == {"ObjectDoesNotExistError", "DriverError"}

\* the outcomes of driver.get_object(container, name): the object is found,
\* the driver raises ObjectDoesNotExistError, or it raises another error
GetObject(c, object_name) ==
  {IF object_name \in DOMAIN store[c] THEN "found" ELSE "ObjectDoesNotExistError",
   "DriverError"}

\* an upload that creates the object only if the name is free
PutObjectIfAbsent(objs, object_name, obj) ==
  [k \in DOMAIN objs \cup {object_name} |->
     IF k \in DOMAIN objs THEN objs[k] ELSE obj]

\* what container.upload_object / upload_object_via_stream leaves in the
\* container: the object under object_name, replacing one of that name
PutObject(objs, object_name, obj) ==
  [k \in DOMAIN objs \cup {object_name} |-> IF k = object_name THEN obj ELSE objs[k]]

\* a delete that removes nothing
DeleteObjectNothing(objs, object_name) == objs

\* what driver.delete_object leaves in the container
DeleteObject(objs, object_name) ==
  [k \in DOMAIN objs \ {object_name} |-> objs[k]]

\* a listing of the container, in an order the backend chooses
RECURSIVE ListObjects(_)
ListObjects(names) ==
  IF names = {} THEN <<>>
  ELSE LET n == CHOOSE x \in names : TRUE
       IN <<n>> \o ListObjects(names \ {n})

\* ----------------------------------------------------------------- upload

\* an acl that is added for public uploads only
ExtraAclWhenPublic(public, acl) ==
  IF acl = NoAcl THEN (IF public THEN "public-read" ELSE NoAcl) ELSE acl

\* if "acl" not in kwargs: kwargs["acl"] = "public-read" if public else "private"
ExtraAcl(public, acl) ==
  IF acl = NoAcl THEN (IF public THEN "public-read" ELSE "private") ELSE acl

\* name = prefix.lstrip("/") + name
ApplyPrefix(prefix, name) == LStrip(prefix, {"/"}) \o name

\* a derivation that appends the source's extension to every name
DerivedNameAlwaysExtended(file, name, prefix, isLocal) ==
  LET extension == get_file_extension(file.filename)
      named == IF name # NoName THEN name
               ELSE IF file.stream
                 THEN slugify(SplitFirst(get_file_name(file.filename),
                                         <<".">> \o extension))
                 ELSE get_file_name(file.filename)
      withExt == named \o <<".">> \o extension
      stripped == Strip(Strip(withExt, {"/"}), Whitespace)
      safe == IF isLocal THEN secure_filename(stripped) ELSE stripped
  IN IF prefix # NoPrefix THEN ApplyPrefix(prefix, safe) ELSE safe

\* the object name upload derives before the overwrite test: from the
\* explicit name or the source's file name, with the source's extension
\* appended when the name has none, stripped, made safe on the local driver,
\* and prefixed
DerivedName(file, name, prefix, isLocal) ==
  LET extension == get_file_extension(file.filename)
      named == IF name # NoName THEN name
               ELSE IF file.stream
                 THEN slugify(SplitFirst(get_file_name(file.filename),
                                         <<".">> \o extension))
                 ELSE get_file_name(file.filename)
      withExt == IF Len(Strip(get_file_extension(named), Whitespace)) = 0
                   THEN named \o <<".">> \o extension
                   ELSE named
      stripped == Strip(Strip(withExt, {"/"}), Whitespace)
      safe == IF isLocal THEN secure_filename(stripped) ELSE stripped
  IN IF prefix # NoPrefix THEN ApplyPrefix(prefix, safe) ELSE safe

\* a whitelist test that lets every extension through
ExtensionAllowedAlways(extension, allowed_extensions, self_allowed) == TRUE

\* the whitelist test of upload: the per-call list if it is given and not
\* empty, the facade's otherwise
ExtensionAllowed(extension, allowed_extensions, self_allowed) ==
  Lower(extension) \in (IF allowed_extensions # NoAllowed
                          THEN allowed_extensions
                          ELSE self_allowed)

\* a new name that leaves the token out
SafeNameWithoutToken(file_name, uuid, extension) ==
  file_name \o <<".">> \o extension

\* object_name = "%s__%s.%s" % (file_name, uuid, extension)
SafeName(file_name, uuid, extension) ==
  file_name \o <<"_", "_">> \o uuid \o <<".">> \o extension

\* ---------------------------------------------------------------- results

NoFile == [stream |-> FALSE, filename |-> <<>>]

\* the local variables of a call; NoLoc when no call is in flight
NoLoc ==
  [file |-> NoFile, object_name |-> <<>>, file_name |-> <<>>,
   extension |-> <<>>, allowed_extensions |-> {}, overwrite |-> FALSE,
   acl |-> "", meta_data |-> "", arg |-> <<>>]

\* what a call returned or raised: kind is "Object" (name, cont), "None",
\* "Bool" (bool), "Int" (int), "List" (list) or the name of the exception
NoRet ==
  [op |-> "", kind |-> "", arg |-> <<>>, name |-> <<>>, cont |-> "",
   bool |-> FALSE, int |-> 0, list |-> <<>>, overwrite |-> FALSE,
   size |-> 0, url |-> <<>>]

Result(op, kind, arg) == [NoRet EXCEPT !.op = op, !.kind = kind, !.arg = arg]

\* Object(obj=...) for the object object_name of container c
ObjectResult(op, arg, c, object_name) ==
  [Result(op, "Object", arg) EXCEPT !.name = object_name, !.cont = c]

\* the history is kept in the sequential specification, whose Init sets input
NoInput == [file |-> NoFile, name |-> NoName, prefix |-> NoPrefix]

Log(event) == IF input = NoInput THEN hist ELSE Append(hist, event)

\* the call in flight on f ends with result r
Finish(f, r) ==
  /\ pc' = [pc EXCEPT ![f] = "idle"]
  /\ loc' = [loc EXCEPT ![f] = NoLoc]
  /\ ret' = [ret EXCEPT ![f] = r]

\* upload, after the name is settled: the whitelist test, which raises
\* InvalidExtensionError or lets the call go on to the driver's upload
CheckExtension(f, l) ==
  IF ExtensionAllowed(get_file_extension(l.file.filename),
                      l.allowed_extensions, facade[f].allowed_extensions)
    THEN /\ pc' = [pc EXCEPT ![f] = "put"]
         /\ loc' = [loc EXCEPT ![f] = l]
         /\ UNCHANGED ret
    ELSE Finish(f, [Result("upload", "InvalidExtensionError", l.arg)
                      EXCEPT !.overwrite = l.overwrite])

\* Storage.upload up to its first driver call: the acl (the other keyword
\* arguments, meta_data among them, go to the driver as given), the derived name,
\* and then either _safe_object_name (overwrite false) or the whitelist test
UploadBegin(f, file, name, prefix, allowed_extensions, overwrite, public, acl, meta_data) ==
  /\ facade[f] # NoFacade
  /\ pc[f] = "idle"
  /\ nops' = nops + 1
  /\ LET object_name == DerivedName(file, name, prefix, IsLocal(f))
         l == [file |-> file,
               object_name |-> object_name,
               file_name |-> splitext(object_name)[1],
               extension |-> get_file_extension(object_name),
               allowed_extensions |-> allowed_extensions,
               overwrite |-> overwrite,
               acl |-> ExtraAcl(public, acl),
               meta_data |-> meta_data,
               arg |-> name]
     IN IF overwrite
          THEN CheckExtension(f, l)
          ELSE /\ pc' = [pc EXCEPT ![f] = "safe"]
               /\ loc' = [loc EXCEPT ![f] = l]
               /\ UNCHANGED ret
  /\ UNCHANGED <<store, facade, hist, input, config, routes>>

\* a _safe_object_name that splits the current name again on every retry,
\* so that the tokens pile up
SafeObjectNameAccumulating(f) ==
  /\ pc[f] = "safe"
  /\ \E out \in GetObject(facade[f].container, loc[f].object_name) :
       IF out = "found"
         THEN \E uuid \in Tokens :
                /\ loc' = [loc EXCEPT ![f].object_name =
                             SafeName(splitext(loc[f].object_name)[1], uuid,
                                      get_file_extension(loc[f].object_name))]
                /\ UNCHANGED <<pc, ret>>
         ELSE IF out = "ObjectDoesNotExistError"
           THEN CheckExtension(f, loc[f])
           ELSE Finish(f, [Result("upload", "DriverError", loc[f].arg)
                             EXCEPT !.overwrite = loc[f].overwrite])
  /\ UNCHANGED <<store, facade, nops, hist, input, config, routes>>

\* Storage._safe_object_name, one test of its while loop: the name exists
\* and a new one is formatted with a fresh token, or it does not and the
\* loop ends, or the driver fails
SafeObjectName(f) ==
  /\ pc[f] = "safe"
  /\ \E out \in GetObject(facade[f].container, loc[f].object_name) :
       IF out = "found"
         THEN \E uuid \in Tokens :
                /\ loc' = [loc EXCEPT ![f].object_name =
                             SafeName(loc[f].file_name, uuid, loc[f].extension)]
                /\ UNCHANGED <<pc, ret>>
         ELSE IF out = "ObjectDoesNotExistError"
           THEN CheckExtension(f, loc[f])
           ELSE Finish(f, [Result("upload", "DriverError", loc[f].arg)
                             EXCEPT !.overwrite = loc[f].overwrite])
  /\ UNCHANGED <<store, facade, nops, hist, input, config, routes>>

\* Storage.upload, the driver's upload and the Object returned
UploadPut(f) ==
  /\ pc[f] = "put"
  /\ LET c == facade[f].container
         n == loc[f].object_name
     IN /\ store' = [store EXCEPT ![c] =
                       PutObject(@, n, [by |-> f, acl |-> loc[f].acl,
                                        meta_data |-> loc[f].meta_data])]
        /\ Finish(f, [ObjectResult("upload", loc[f].arg, c, n)
                        EXCEPT !.overwrite = loc[f].overwrite])
        /\ hist' = Log([op |-> "upload", name |-> n, cont |-> c,
                         overwrite |-> loc[f].overwrite])
  /\ UNCHANGED <<facade, nops, input, config, routes>>

\* ------------------------------------------------- contains, get, len, iter

\* a __contains__ that catches every exception and answers False
ContainsCatchAll(f, object_name) ==
  /\ facade[f] # NoFacade
  /\ pc[f] = "idle"
  /\ nops' = nops + 1
  /\ \E out \in GetObject(facade[f].container, object_name) :
       ret' = [ret EXCEPT ![f] =
                 [Result("contains", "Bool", object_name) EXCEPT
                    !.bool = (out = "found")]]
  /\ UNCHANGED <<store, facade, pc, loc, hist, input, config, routes>>

\* Storage.__contains__
Contains(f, object_name) ==
  /\ facade[f] # NoFacade
  /\ pc[f] = "idle"
  /\ nops' = nops + 1
  /\ \E out \in GetObject(facade[f].container, object_name) :
       ret' = [ret EXCEPT ![f] =
                 IF out = "found"
                   THEN [Result("contains", "Bool", object_name) EXCEPT !.bool = TRUE]
                 ELSE IF out = "ObjectDoesNotExistError"
                   THEN [Result("contains", "Bool", object_name) EXCEPT !.bool = FALSE]
                 ELSE Result("contains", "DriverError", object_name)]
  /\ UNCHANGED <<store, facade, pc, loc, hist, input, config, routes>>

\* Storage.get, its test `object_name in self`
GetBegin(f, object_name) ==
  /\ facade[f] # NoFacade
  /\ pc[f] = "idle"
  /\ nops' = nops + 1
  /\ \E out \in GetObject(facade[f].container, object_name) :
       IF out = "found"
         THEN /\ pc' = [pc EXCEPT ![f] = "fetch"]
              /\ loc' = [loc EXCEPT ![f] = [NoLoc EXCEPT !.object_name = object_name,
                                                         !.arg = object_name]]
              /\ UNCHANGED ret
         ELSE IF out = "ObjectDoesNotExistError"
           THEN /\ ret' = [ret EXCEPT ![f] = Result("get", "None", object_name)]
                /\ UNCHANGED <<pc, loc>>
           ELSE /\ ret' = [ret EXCEPT ![f] = Result("get", "DriverError", object_name)]
                /\ UNCHANGED <<pc, loc>>
  /\ UNCHANGED <<store, facade, hist, input, config, routes>>

\* Storage.get, its self.container.get_object(object_name): nothing catches
\* what this second query raises
GetFetch(f) ==
  /\ pc[f] = "fetch"
  /\ \E out \in GetObject(facade[f].container, loc[f].object_name) :
       Finish(f, IF out = "found"
                   THEN ObjectResult("get", loc[f].arg, facade[f].container,
                                     loc[f].object_name)
                   ELSE Result("get", out, loc[f].arg))
  /\ UNCHANGED <<store, facade, nops, hist, input, config, routes>>

\* a __len__ that answers from the listing the caller last iterated
LengthCached(f) ==
  /\ facade[f] # NoFacade
  /\ pc[f] = "idle"
  /\ nops' = nops + 1
  /\ ret' = [ret EXCEPT ![f] =
               [Result("len", "Int", <<>>) EXCEPT
                  !.int = IF ret[f].kind = "List"
                            THEN Len(ret[f].list)
                            ELSE Len(ListObjects(DOMAIN store[facade[f].container]))]]
  /\ UNCHANGED <<store, facade, pc, loc, hist, input, config, routes>>

\* Storage.__len__
Length(f) ==
  /\ facade[f] # NoFacade
  /\ pc[f] = "idle"
  /\ nops' = nops + 1
  /\ ret' = [ret EXCEPT ![f] =
               [Result("len", "Int", <<>>) EXCEPT
                  !.int = Len(ListObjects(DOMAIN store[facade[f].container]))]]
  /\ UNCHANGED <<store, facade, pc, loc, hist, input, config, routes>>

\* Storage.__iter__, run to its end: [o.name for o in storage]
Iterate(f) ==
  /\ facade[f] # NoFacade
  /\ pc[f] = "idle"
  /\ nops' = nops + 1
  /\ ret' = [ret EXCEPT ![f] =
               [Result("iter", "List", <<>>) EXCEPT
                  !.list = ListObjects(DOMAIN store[facade[f].container])]]
  /\ UNCHANGED <<store, facade, pc, loc, hist, input, config, routes>>

\* ------------------------------------------------------------ delete, use

\* Object.delete() on the Object the caller of f last received: delegated
\* to the driver, which removes the object or raises when it is not there
Delete(f) ==
  /\ pc[f] = "idle"
  /\ ret[f].kind = "Object"
  /\ nops' = nops + 1
  /\ LET c == ret[f].cont
         n == ret[f].name
     IN IF n \in DOMAIN store[c]
          THEN /\ store' = [store EXCEPT ![c] = DeleteObject(@, n)]
               /\ ret' = [ret EXCEPT ![f] =
                            [Result("delete", "Bool", n) EXCEPT !.bool = TRUE,
                                                                !.cont = c]]
               /\ hist' = Log([op |-> "delete", name |-> n, cont |-> c,
                                overwrite |-> FALSE])
          ELSE /\ ret' = [ret EXCEPT ![f] =
                            [Result("delete", "ObjectDoesNotExistError", n)
                               EXCEPT !.cont = c]]
               /\ UNCHANGED <<store, hist>>
  /\ UNCHANGED <<facade, pc, loc, input, config, routes>>

\* a use that also rebinds the facade it is called on
UseRebindingSelf(f, container) ==
  /\ f \in Originals
  /\ facade[f] # NoFacade
  /\ pc[f] = "idle"
  /\ facade[ScopedId] = NoFacade
  /\ pc[ScopedId] = "idle"
  /\ nops' = nops + 1
  /\ facade' = [facade EXCEPT
                  ![ScopedId] = Construct(ScopedId,
                                          [facade[f].kw EXCEPT !.container = container]),
                  ![f].container = container]
  /\ UNCHANGED <<store, pc, loc, ret, hist, input, config, routes>>

\* Storage.use, entering the scope: a new Storage built from a copy of the
\* parameters of f with the container replaced
Use(f, container) ==
  /\ f \in Originals
  /\ facade[f] # NoFacade
  /\ pc[f] = "idle"
  /\ facade[ScopedId] = NoFacade
  /\ pc[ScopedId] = "idle"
  /\ nops' = nops + 1
  /\ facade' = [facade EXCEPT ![ScopedId] =
                  Construct(ScopedId, [facade[f].kw EXCEPT !.container = container])]
  /\ UNCHANGED <<store, pc, loc, ret, hist, input, config, routes>>

\* Storage.use, leaving the scope: del s
UseExit ==
  /\ facade[ScopedId] # NoFacade
  /\ pc[ScopedId] = "idle"
  /\ facade' = [facade EXCEPT ![ScopedId] = NoFacade]
  /\ UNCHANGED <<store, pc, loc, ret, nops, hist, input, config, routes>>

\* ----------------------------------------------------------------- create

\* get_file_extension_type: the group of EXTENSIONS that holds the
\* extension, or OTHER
get_file_extension_type(filename) ==
  LET ext == get_file_extension(filename)
  IN IF ext \in EXT_TEXT THEN "TEXT"
     ELSE IF ext \in EXT_DOCUMENT THEN "DOCUMENT"
     ELSE IF ext \in EXT_IMAGE THEN "IMAGE"
     ELSE IF ext \in EXT_AUDIO THEN "AUDIO"
     ELSE IF ext \in EXT_DATA THEN "DATA"
     ELSE IF ext \in EXT_SCRIPT THEN "SCRIPT"
     ELSE IF ext \in EXT_ARCHIVE THEN "ARCHIVE"
     ELSE "OTHER"

\* container.name, as characters
ContainerName(c) == IF c = "c1" THEN <<"c", "1">> ELSE <<"c", "2">>

\* the fields and properties of an Object that derive from what it wraps:
\* name, size, extension, type and path ("%s/%s" % (container.name, name))
ObjectFields(o) ==
  [name |-> o.name,
   size |-> o.size,
   extension |-> get_file_extension(o.name),
   type |-> get_file_extension_type(o.name),
   path |-> ContainerName(o.cont) \o <<"/">> \o o.name]

\* a create that also writes the object to the container
CreateStoring(f, object_name, size) ==
  /\ facade[f] # NoFacade
  /\ pc[f] = "idle"
  /\ nops' = nops + 1
  /\ store' = [store EXCEPT ![facade[f].container] =
                 PutObject(@, object_name, [by |-> f, acl |-> NoAcl,
                                            meta_data |-> NoMeta])]
  /\ ret' = [ret EXCEPT ![f] =
               [ObjectResult("create", object_name, facade[f].container,
                             object_name) EXCEPT !.size = size]]
  /\ hist' = Log([op |-> "create", name |-> object_name,
                  cont |-> facade[f].container, overwrite |-> FALSE])
  /\ UNCHANGED <<facade, pc, loc, input, config, routes>>

\* Storage.create: an Object around a libcloud Object built in memory from
\* the arguments, the facade's container and driver; no driver call
Create(f, object_name, size) ==
  /\ facade[f] # NoFacade
  /\ pc[f] = "idle"
  /\ nops' = nops + 1
  /\ ret' = [ret EXCEPT ![f] =
               [ObjectResult("create", object_name, facade[f].container,
                             object_name) EXCEPT !.size = size]]
  /\ hist' = Log([op |-> "create", name |-> object_name,
                  cont |-> facade[f].container, overwrite |-> FALSE])
  /\ UNCHANGED <<store, facade, pc, loc, input, config, routes>>

\* ------------------------------------------------- concurrent specification

Providers == {"LOCAL", "S3"}

HelloTxt == [stream |-> FALSE,
             filename |-> <<"d","/","h","e","l","l","o",".","t","x","t">>]

HelloJs == [stream |-> FALSE,
            filename |-> <<"d","/","h","e","l","l","o",".","j","s">>]

XTxt == <<"x",".","t","x","t">>

\* the arguments of the calls of the concurrent specification
Files == {HelloTxt, HelloJs}

Names == {NoName}

AllowedArgs == {NoAllowed, {<<"j","s">>}}

QueryNames == {<<"h","e","l","l","o",".","t","x","t">>,
               <<"h","e","l","l","o",".","j","s">>}

\* the application has constructed two facades on container c1 of one
\* provider; the containers are empty
Init ==
  /\ store = [c \in Containers |-> <<>>]
  /\ \E p \in {"LOCAL"} :
       facade = [f \in Facades |->
                   IF f \in Originals
                     THEN Construct(f, [provider |-> p, container |-> "c1",
                                        allowed_extensions |-> {}])
                     ELSE NoFacade]
  /\ pc = [f \in Facades |-> "idle"]
  /\ loc = [f \in Facades |-> NoLoc]
  /\ ret = [f \in Facades |-> NoRet]
  /\ nops = 0
  /\ hist = <<>>
  /\ input = NoInput
  /\ config = NoConfig
  /\ routes = {}

\* a call may start
CanStart == nops < MaxOps

Next ==
  \/ \E f \in Facades, file \in Files, name \in Names, allowed \in AllowedArgs,
        overwrite \in BOOLEAN :
       CanStart /\ UploadBegin(f, file, name, NoPrefix, allowed, overwrite, FALSE, NoAcl,
                      NoMeta)
  \/ \E f \in Facades : SafeObjectName(f)
  \/ \E f \in Facades : UploadPut(f)
  \/ \E f \in Facades, n \in QueryNames : CanStart /\ Contains(f, n)
  \/ \E f \in Facades, n \in QueryNames : CanStart /\ GetBegin(f, n)
  \/ \E f \in Facades : GetFetch(f)
  \/ \E f \in Facades : CanStart /\ Length(f)
  \/ \E f \in Facades : CanStart /\ Iterate(f)
  \/ \E f \in Facades : CanStart /\ Delete(f)
  \/ \E f \in Facades, c \in Containers : CanStart /\ Use(f, c)
  \/ UseExit

Spec == Init /\ [][Next]_vars

\* ------------------------------------------------- sequential specification
\* One facade and one caller: Init draws the arguments (source, name, prefix)
\* of the uploads of the behaviour; the calls follow one another.

PathHTxt == [stream |-> FALSE, filename |-> <<"d","/","h",".","t","x","t">>]

PathHJs == [stream |-> FALSE, filename |-> <<"d","/","h",".","j","s">>]

PathReadme == [stream |-> FALSE, filename |-> <<"d","/","r","e","a","d","m","e">>]

StreamHTxt == [stream |-> TRUE, filename |-> <<"m","y"," ","h",".","t","x","t">>]

StreamUpper == [stream |-> TRUE, filename |-> <<"H",".","T","X","T">>]

SeqNames ==
  {NoName,
   <<"x">>,
   <<"x",".","t","x","t">>,
   <<"X",".","T","X","T">>,
   <<"/","x",".","t","x","t","/">>,
   <<"a"," ","b",".","t","x","t">>,
   <<"d","/","x",".","t","x","t">>}

SeqPrefixes ==
  {NoPrefix,
   <<"a","/","b">>,
   <<"/","a","/","b">>,
   <<"a","/","b","/">>}

\* every name and prefix with the source d/h.txt, and the other sources
\* with no name and no prefix
SeqInputs ==
  {[file |-> PathHTxt, name |-> n, prefix |-> p] : n \in SeqNames, p \in SeqPrefixes}
  \cup {[file |-> f, name |-> NoName, prefix |-> NoPrefix] :
          f \in {PathHJs, PathReadme, StreamHTxt, StreamUpper}}

\* the facade of the sequential specification
Caller == "s1"

\* the name upload derives from the input on the facade Caller
InputName == DerivedName(input.file, input.name, input.prefix, IsLocal(Caller))

InitSeq ==
  /\ store = [c \in Containers |-> <<>>]
  /\ \E p \in Providers :
       facade = [f \in Facades |->
                   IF f \in Originals
                     THEN Construct(f, [provider |-> p, container |-> "c1",
                                        allowed_extensions |-> {}])
                     ELSE NoFacade]
  /\ pc = [f \in Facades |-> "idle"]
  /\ loc = [f \in Facades |-> NoLoc]
  /\ ret = [f \in Facades |-> NoRet]
  /\ nops = 0
  /\ hist = <<>>
  /\ input \in SeqInputs
  /\ config = NoConfig
  /\ routes = {}

CanStartSeq == nops < MaxSeqOps

NextSeq ==
  \/ \E allowed \in AllowedArgs, overwrite \in BOOLEAN :
       CanStartSeq /\ UploadBegin(Caller, input.file, input.name, input.prefix,
                                  allowed, overwrite, FALSE, NoAcl, NoMeta)
  \/ SafeObjectName(Caller)
  \/ UploadPut(Caller)
  \/ \E n \in {InputName, input.name} \ {NoName} : CanStartSeq /\ Contains(Caller, n)
  \/ \E n \in {InputName, input.name} \ {NoName} : CanStartSeq /\ GetBegin(Caller, n)
  \/ GetFetch(Caller)
  \/ CanStartSeq /\ Delete(Caller)

SpecSeq == InitSeq /\ [][NextSeq]_vars

\* -------------------------------------------------- argument specification
\* One facade and one caller, as in the sequential specification, with the
\* other arguments of upload (public, acl, meta_data), names that need
\* stripping or sanitising, and create.

ArgNames ==
  {NoName,
   <<"x">>,
   <<"x",".","t","x","t">>,
   <<"x",".","J","P","G">>,
   <<"/","x",".","t","x","t","/">>,
   <<" ","/","x",".","t","x","t">>,
   <<"x",".","~">>}

ArgPrefixes == {NoPrefix, <<"/","a","/","b","/">>}

Acls == {NoAcl, "public-read", "authenticated-read"}

Metas == {NoMeta, "m"}

Sizes == {0, 7}

\* every name and prefix with the source d/h.txt and no other argument;
\* every public, acl and meta_data with the source d/h.txt and no name; and
\* the source without extension with and without a name
ArgInputs ==
  {[file |-> PathHTxt, name |-> n, prefix |-> p, public |-> FALSE,
    acl |-> NoAcl, meta_data |-> NoMeta] : n \in ArgNames, p \in ArgPrefixes}
  \cup {[file |-> PathHTxt, name |-> NoName, prefix |-> NoPrefix, public |-> b,
          acl |-> a, meta_data |-> m] : b \in BOOLEAN, a \in Acls, m \in Metas}
  \cup {[file |-> PathReadme, name |-> n, prefix |-> NoPrefix, public |-> FALSE,
          acl |-> NoAcl, meta_data |-> NoMeta] :
            n \in {NoName, <<"x">>, <<"x",".","t","x","t">>}}

InitArgs ==
  /\ store = [c \in Containers |-> <<>>]
  /\ \E p \in Providers :
       facade = [f \in Facades |->
                   IF f \in Originals
                     THEN Construct(f, [provider |-> p, container |-> "c1",
                                        allowed_extensions |-> {}])
                     ELSE NoFacade]
  /\ pc = [f \in Facades |-> "idle"]
  /\ loc = [f \in Facades |-> NoLoc]
  /\ ret = [f \in Facades |-> NoRet]
  /\ nops = 0
  /\ hist = <<>>
  /\ input \in ArgInputs
  /\ config = NoConfig
  /\ routes = {}

NextArgs ==
  \/ \E overwrite \in BOOLEAN :
       CanStartSeq /\ UploadBegin(Caller, input.file, input.name, input.prefix,
                                  NoAllowed, overwrite, input.public, input.acl,
                                  input.meta_data)
  \/ SafeObjectName(Caller)
  \/ UploadPut(Caller)
  \/ \E n \in {input.name} \ {NoName}, size \in Sizes :
       CanStartSeq /\ Create(Caller, n, size)
  \/ \E n \in {InputName, input.name} \ {NoName} : CanStartSeq /\ Contains(Caller, n)
  \/ \E n \in {InputName, input.name} \ {NoName} : CanStartSeq /\ GetBegin(Caller, n)
  \/ GetFetch(Caller)

SpecArgs == InitArgs /\ [][NextArgs]_vars

\* ------------------------------------------------------ name specification
\* One facade and one caller: Init draws the source (a path or an upload
\* stream), the name and the per-call whitelist of the uploads of the
\* behaviour, among them sources whose extension is in upper case or occurs
\* twice, and names whose extension differs from the source's.

PathUpper == [stream |-> FALSE, filename |-> <<"d","/","H",".","T","X","T">>]

PathBlank == [stream |-> FALSE, filename |-> <<"d","/","m","y"," ","h",".","t","x","t">>]

StreamSlug == [stream |-> TRUE, filename |-> <<"h",".","t","x","t">>]

StreamDouble == [stream |-> TRUE, filename |-> <<"a",".","t","x","t",".","t","x","t">>]

NamePaths == {PathHTxt, PathUpper, PathBlank}

NameStreams == {StreamSlug, StreamHTxt, StreamUpper, StreamDouble}

NameNames ==
  {NoName,
   <<"x">>,
   <<"x",".","j","s">>,
   <<"x",".","J","P","G">>,
   <<"/","x",".","t","x","t","/">>,
   <<"a"," ","b",".","t","x","t">>}

NameAllowed == {NoAllowed, {<<"t","x","t">>}, {<<"j","s">>}}

\* every name with every path, and the streams without a name; no prefix
NameInputs ==
  {[file |-> f, name |-> n, prefix |-> NoPrefix, allowed |-> a] :
     f \in NamePaths, n \in NameNames, a \in NameAllowed}
  \cup {[file |-> f, name |-> NoName, prefix |-> NoPrefix, allowed |-> a] :
          f \in NameStreams, a \in NameAllowed}

InitNames ==
  /\ store = [c \in Containers |-> <<>>]
  /\ \E p \in Providers :
       facade = [f \in Facades |->
                   IF f \in Originals
                     THEN Construct(f, [provider |-> p, container |-> "c1",
                                        allowed_extensions |-> {}])
                     ELSE NoFacade]
  /\ pc = [f \in Facades |-> "idle"]
  /\ loc = [f \in Facades |-> NoLoc]
  /\ ret = [f \in Facades |-> NoRet]
  /\ nops = 0
  /\ hist = <<>>
  /\ input \in NameInputs
  /\ config = NoConfig
  /\ routes = {}

NextNames ==
  \/ \E overwrite \in BOOLEAN :
       CanStartSeq /\ UploadBegin(Caller, input.file, input.name, input.prefix,
                                  input.allowed, overwrite, FALSE, NoAcl, NoMeta)
  \/ SafeObjectName(Caller)
  \/ UploadPut(Caller)

SpecNames == InitNames /\ [][NextNames]_vars

\* _safe_object_name goes round its loop with a token that gives a name the
\* container does not hold
DrawsUnusedToken ==
  /\ SafeObjectName(Caller)
  /\ pc'[Caller] = "safe"
  /\ loc'[Caller].object_name \notin DOMAIN store[facade[Caller].container]

\* the step in which the while loop of _safe_object_name ends and the name
\* loc[Caller].object_name is returned to upload
SafeObjectNameReturns ==
  /\ pc[Caller] = "safe"
  /\ \/ pc'[Caller] = "put"
     \/ pc'[Caller] = "idle" /\ ret'[Caller].kind = "InvalidExtensionError"

\* the existence check of _safe_object_name answers that the name is absent:
\* the loop ends and upload goes on to its whitelist test
SafeObjectNameEnds == SafeObjectName(Caller) /\ SafeObjectNameReturns

\* the path d/h.txt, uploaded without a name or as x, with the facade's
\* whitelist or one that refuses it
InitLoop ==
  /\ InitNames
  /\ input.file = PathHTxt
  /\ input.name \in {NoName, <<"x">>}
  /\ input.allowed \in {NoAllowed, {<<"j","s">>}}

\* the uploads of the name specification when the call in flight runs on: a
\* name found absent is returned, the driver's upload is made, and the random
\* tokens do not avoid the unused ones for ever
SpecLoop ==
  /\ InitLoop
  /\ [][NextNames]_vars
  /\ WF_vars(DrawsUnusedToken)
  /\ WF_vars(SafeObjectNameEnds)
  /\ WF_vars(UploadPut(Caller))

\* ---------------------------------------------------------- Object: URLs

\* sub in s (Python's `sub in s`)
HasSub(s, sub) == \E i \in 1..Len(s) : OccursAt(s, sub, i)

\* s.replace(old, new)
RECURSIVE Replace(_, _, _)
Replace(s, old, new) ==
  IF Len(s) < Len(old) THEN s
  ELSE IF OccursAt(s, old, 1)
    THEN new \o Replace(SubSeq(s, Len(old) + 1, Len(s)), old, new)
    ELSE <<Head(s)>> \o Replace(Tail(s), old, new)

\* the providers of the Objects looked at
ObjProviders ==
  {"LOCAL", "S3", "GOOGLE_STORAGE", "AZURE_BLOBS", "CLOUDFILES", "NINEFOLD"}

\* driver.name of the libcloud driver of a provider
DriverName(provider) ==
  IF provider = "LOCAL" THEN <<"L","o","c","a","l"," ","S","t","o","r","a","g","e">>
  ELSE IF provider = "S3" THEN <<"A","m","a","z","o","n"," ","S","3"," ","(","s","t","a","n","d","a","r","d",")">>
  ELSE IF provider = "GOOGLE_STORAGE" THEN <<"G","o","o","g","l","e"," ","S","t","o","r","a","g","e">>
  ELSE IF provider = "AZURE_BLOBS" THEN <<"M","i","c","r","o","s","o","f","t"," ","A","z","u","r","e"," ","(","b","l","o","b","s",")">>
  ELSE IF provider = "CLOUDFILES" THEN <<"C","l","o","u","d","F","i","l","e","s">>
  ELSE <<"N","i","n","e","f","o","l","d">>

\* driver.connection.host, driver.key and driver.secret
DriverHost == <<"s","3",".","a","w","s",".","c","o","m">>

DriverKey == <<"a","c","c","t">>

\* get_cdn_url() raised NotImplementedError
Unsupported == <<>>

\* the URLs get_cdn_url() returns: of a CDN over http and over https, of the
\* local driver (a path), and of an S3 driver that has the call
CdnHttp(name) == <<"h","t","t","p",":","/","/","c",".","r","1",".","c","d","n",".","c","o","m","/">> \o name

CdnHttps(name) == <<"h","t","t","p","s",":","/","/","c",".","s","s","l",".","c","d","n",".","c","o","m","/">> \o name

LocalCdn(name) == <<"/","s","r","v","/","c","1","/">> \o name

NativeS3(name) == <<"h","t","t","p","s",":","/","/","s","3",".","a","w","s",".","c","o","m","/","c","1","/">> \o name

\* the outcomes of self._obj.get_cdn_url() by provider
NativeOutcomes(provider, name) ==
  IF provider = "LOCAL" THEN {LocalCdn(name)}
  ELSE IF provider = "CLOUDFILES" THEN {CdnHttp(name), CdnHttps(name)}
  ELSE IF provider = "S3" THEN {Unsupported, NativeS3(name)}
  ELSE {Unsupported}

\* what a call returns or raises: a kind and, for kind "Url", the URL
Out(kind, url) == [kind |-> kind, url |-> url]

\* flask.url_for(SERVER_ENDPOINT, object_name=..., _external=..., **values):
\* BuildError when the file server has no route; otherwise the path under
\* the serving prefix, with scheme and host when external, and the other
\* values as the query
url_for(obj, external, query) ==
  IF ~obj.served THEN Out("BuildError", <<>>)
  ELSE Out("Url",
           (IF external THEN obj.scheme \o <<":","/","/","s","i","t","e",".","c","o","m">> ELSE <<>>)
             \o <<"/","f","i","l","e","s","/">> \o obj.name
             \o (IF query = <<>> THEN <<>> ELSE <<"?">> \o query))

\* urljoin(base, path) for a base without path and a relative path without
\* dot segments
urljoin(base, path) == base \o <<"/">> \o path

\* a get_url that answers the S3 form for every driver without native URL
get_url_s3_for_all(obj, secure, longurl) ==
  LET object_path == ContainerName(obj.cont) \o <<"/">> \o obj.name
      url == IF obj.native = Unsupported
               THEN urljoin(<<"h","t","t","p",":","/","/">> \o DriverHost, object_path)
               ELSE obj.native
  IN Out("Url", IF secure THEN Replace(url, <<"h","t","t","p",":","/","/">>, <<"h","t","t","p","s",":","/","/">>) ELSE url)

\* Object.get_url: the driver's native URL (for the local driver, the URL of
\* the file server instead); without native URL, the URL built by provider
\* family, or NotImplementedError; then, if secure, the rewriting to https
get_url(obj, secure, longurl) ==
  LET driver_name == Lower(DriverName(obj.provider))
      object_path == ContainerName(obj.cont) \o <<"/">> \o obj.name
      first ==
        IF obj.native # Unsupported
          THEN IF HasSub(driver_name, <<"l","o","c","a","l">>)
                 THEN url_for(obj, longurl, <<>>)
                 ELSE Out("Url", obj.native)
        ELSE IF HasSub(driver_name, <<"s","3">>)
          THEN Out("Url", urljoin(<<"h","t","t","p",":","/","/">> \o DriverHost, object_path))
        ELSE IF HasSub(driver_name, <<"g","o","o","g","l","e">>)
          THEN Out("Url", urljoin(<<"h","t","t","p",":","/","/","s","t","o","r","a","g","e",".","g","o","o","g","l","e","a","p","i","s",".","c","o","m">>, object_path))
        ELSE IF HasSub(driver_name, <<"a","z","u","r","e">>)
          THEN Out("Url", urljoin(<<"h","t","t","p",":","/","/">> \o DriverKey \o <<".","b","l","o","b",".","c","o","r","e",".","w","i","n","d","o","w","s",".","n","e","t">>, object_path))
        ELSE Out("NotImplementedError", <<>>)
  IN IF first.kind # "Url" \/ ~secure THEN first
     ELSE IF HasSub(driver_name, <<"c","l","o","u","d","f","i","l","e","s">>)
       THEN IF ~OccursAt(first.url, <<"h","t","t","p",":","/","/">>, 1)
              THEN first
              \* urlunparse is called with six arguments; it takes one
              ELSE Out("TypeError", <<>>)
     ELSE IF \/ HasSub(driver_name, <<"s","3">>)
             \/ HasSub(driver_name, <<"g","o","o","g","l","e">>)
             \/ HasSub(driver_name, <<"a","z","u","r","e">>)
       THEN Out("Url", Replace(first.url, <<"h","t","t","p",":","/","/">>, <<"h","t","t","p","s",":","/","/">>))
       ELSE first

\* Object.secure_url
secure_url(obj) == get_url(obj, TRUE, TRUE)

\* the Python versions the module is written for (it imports six)
Pythons == {2, 3}

\* urlencode of the key id, the expiry and the signature
SignedQuery(driver_name) ==
  (IF HasSub(driver_name, <<"s","3">>) THEN <<"A","W","S","A","c","c","e","s","s","K","e","y","I","d">> ELSE <<"G","o","o","g","l","e","A","c","c","e","s","s","I","d">>)
    \o <<"=">> \o DriverKey \o <<"&","E","x","p","i","r","e","s","=","E","&","S","i","g","n","a","t","u","r","e","=","S">>

\* Object.download_url: the file server's URL with dl=1 for the local
\* driver; for S3 and Google the secure URL with a signed query (hmac.new
\* on the str secret and str message raises TypeError on Python 3); the
\* driver's temporary URL for Cloudfiles; for every other driver
\* `raise NotImplemented(...)`, a call of the constant NotImplemented, which
\* raises TypeError
download_url(obj, name) ==
  LET driver_name == Lower(DriverName(obj.provider))
  IN IF HasSub(driver_name, <<"l","o","c","a","l">>)
       THEN url_for(obj, TRUE,
                    <<"d","l","=","1">> \o (IF name = NoName THEN <<>> ELSE <<"&","n","a","m","e","=">> \o name))
     ELSE IF HasSub(driver_name, <<"s","3">>) \/ HasSub(driver_name, <<"g","o","o","g","l","e">>)
       THEN IF obj.python = 3 THEN Out("TypeError", <<>>)
            ELSE LET su == secure_url(obj)
                 IN IF su.kind # "Url" THEN su
                    ELSE Out("Url", su.url \o <<"?">> \o SignedQuery(driver_name))
     ELSE IF HasSub(driver_name, <<"c","l","o","u","d","f","i","l","e","s">>)
       THEN Out("Url", <<"h","t","t","p","s",":","/","/","c",".","c","d","n",".","c","o","m","/","t","e","m","p","/">> \o obj.name)
     ELSE Out("TypeError", <<>>)

\* the result of a call on the Object of the input
UrlResult(op, out) ==
  [Result(op, out.kind, input.name) EXCEPT !.url = out.url, !.cont = input.cont]

GetUrl(f, secure, longurl) ==
  /\ pc[f] = "idle"
  /\ nops' = nops + 1
  /\ ret' = [ret EXCEPT ![f] = UrlResult("get_url", get_url(input, secure, longurl))]
  /\ UNCHANGED <<store, facade, pc, loc, hist, input, config, routes>>

DownloadUrl(f, name) ==
  /\ pc[f] = "idle"
  /\ nops' = nops + 1
  /\ ret' = [ret EXCEPT ![f] = UrlResult("download_url", download_url(input, name))]
  /\ UNCHANGED <<store, facade, pc, loc, hist, input, config, routes>>

\* -------------------------------------------------------- Object: save_to

\* the local directories that exist, and one that does not
TmpDir == <<"/","t","m","p">>

MissingDir == <<"/","n","o","n","e">>

LocalDirs == {TmpDir}

\* the outcomes of self._obj.download(...): done, failed, or an error of
\* the driver
DownloadOutcomes == {"done", "failed", "LibcloudError"}

\* obj_path of save_to
SavePath(obj, destination, name) ==
  IF name # NoName
    THEN destination \o <<"/">> \o name \o <<".">> \o get_file_extension(obj.name)
    ELSE destination \o <<"/">> \o obj.name

\* a save_to that downloads before it looks at the destination
SaveToDownloadingFirst(f, destination, name) ==
  /\ pc[f] = "idle"
  /\ nops' = nops + 1
  /\ \E file \in DownloadOutcomes :
       /\ hist' = Log([op |-> "download",
                       name |-> SavePath(input, destination, name),
                       cont |-> input.cont, overwrite |-> FALSE])
       /\ ret' = [ret EXCEPT ![f] =
                    IF destination \notin LocalDirs
                      THEN UrlResult("save_to", Out("IOError", <<>>))
                    ELSE IF file = "LibcloudError"
                      THEN UrlResult("save_to", Out("LibcloudError", <<>>))
                    ELSE IF file = "done"
                      THEN UrlResult("save_to",
                                     Out("Path", SavePath(input, destination, name)))
                      ELSE UrlResult("save_to", Out("None", <<>>))]
  /\ UNCHANGED <<store, facade, pc, loc, input, config, routes>>

\* Object.save_to: IOError when destination is no directory; otherwise the
\* driver downloads the object to obj_path, and the call returns obj_path,
\* or None when the download reports failure
SaveTo(f, destination, name) ==
  /\ pc[f] = "idle"
  /\ nops' = nops + 1
  /\ IF destination \notin LocalDirs
       THEN /\ ret' = [ret EXCEPT ![f] = UrlResult("save_to", Out("IOError", <<>>))]
            /\ UNCHANGED hist
       ELSE \E file \in DownloadOutcomes :
              /\ hist' = Log([op |-> "download",
                              name |-> SavePath(input, destination, name),
                              cont |-> input.cont, overwrite |-> FALSE])
              /\ ret' = [ret EXCEPT ![f] =
                           IF file = "LibcloudError"
                             THEN UrlResult("save_to", Out("LibcloudError", <<>>))
                           ELSE IF file = "done"
                             THEN UrlResult("save_to",
                                            Out("Path", SavePath(input, destination, name)))
                             ELSE UrlResult("save_to", Out("None", <<>>))]
  /\ UNCHANGED <<store, facade, pc, loc, input, config, routes>>

\* ---------------------------------------------------- Object specification
\* Init draws an Object (its provider, name and what the environment answers
\* for it); its URL methods and save_to are applied to it.

ObjNames == {XTxt, <<"a","/","X",".","J","P","G">>}

ObjBase ==
  [provider |-> "S3", cont |-> "c1", name |-> XTxt, native |-> Unsupported,
   served |-> TRUE, scheme |-> <<"h","t","t","p">>, python |-> 2]

\* every provider with every name and native outcome; for the local driver
\* also an application without file server and one served over https; for
\* S3 and Google also Python 3
ObjInputs ==
  UNION {{[ObjBase EXCEPT !.provider = p, !.name = n, !.native = u] :
            u \in NativeOutcomes(p, n)} : p \in ObjProviders, n \in ObjNames}
  \cup {[ObjBase EXCEPT !.provider = "LOCAL", !.native = LocalCdn(XTxt),
                        !.served = b, !.scheme = h] :
          b \in BOOLEAN, h \in {<<"h","t","t","p">>, <<"h","t","t","p","s">>}}
  \cup {[ObjBase EXCEPT !.provider = p, !.python = 3] :
          p \in {"S3", "GOOGLE_STORAGE"}}

InitObj ==
  /\ store = [c \in Containers |-> <<>>]
  /\ input \in ObjInputs
  /\ facade = [f \in Facades |->
                 IF f \in Originals
                   THEN Construct(f, [provider |-> input.provider, container |-> "c1",
                                      allowed_extensions |-> {}])
                   ELSE NoFacade]
  /\ pc = [f \in Facades |-> "idle"]
  /\ loc = [f \in Facades |-> NoLoc]
  /\ ret = [f \in Facades |-> NoRet]
  /\ nops = 0
  /\ hist = <<>>
  /\ config = NoConfig
  /\ routes = {}

SaveNames == {NoName, <<"n">>}

NextObj ==
  \/ \E secure \in BOOLEAN, longurl \in BOOLEAN :
       CanStartSeq /\ GetUrl(Caller, secure, longurl)
  \/ \E name \in SaveNames : CanStartSeq /\ DownloadUrl(Caller, name)
  \/ \E destination \in {TmpDir, MissingDir}, name \in SaveNames :
       CanStartSeq /\ SaveTo(Caller, destination, name)

SpecObj == InitObj /\ [][NextObj]_vars

\* --------------------------------------------- configuration specification
\* Two Storage instances created without arguments, and the Flask
\* applications they are initialised with.

\* the directories (buckets) that exist
Dirs == Containers

AppBase ==
  [id |-> "app", provider |-> "LOCAL", container |-> "c1",
   allowed_extensions |-> {}, serve_files |-> TRUE,
   serve_files_url |-> <<"f","i","l","e","s">>]

\* app.config of the applications: a local one serving under files, a local
\* one on the other directory serving under /media/ with its own whitelist,
\* a cloud one that serves nothing, one serving under an empty URL, one
\* without STORAGE_PROVIDER, a local one whose directory does not exist and
\* a cloud one whose bucket does not exist
Apps ==
  {AppBase,
   [AppBase EXCEPT !.id = "media", !.container = "c2",
                   !.allowed_extensions = {<<"j","s">>},
                   !.serve_files_url = <<"/","m","e","d","i","a","/">>],
   [AppBase EXCEPT !.id = "cloud", !.provider = "S3", !.serve_files = FALSE],
   [AppBase EXCEPT !.id = "nourl", !.serve_files_url = <<>>],
   [AppBase EXCEPT !.id = "noprovider", !.provider = ""],
   [AppBase EXCEPT !.id = "nodir", !.container = "nodir"],
   [AppBase EXCEPT !.id = "nobucket", !.provider = "S3", !.container = "nodir"]}

\* the constructor parameters init_app passes on
AppKw(app) ==
  [provider |-> app.provider, container |-> app.container,
   allowed_extensions |-> app.allowed_extensions]

\* Storage._register_file_server: a route for the local driver when files
\* are served and the URL prefix is not empty
RegisterFileServer(app, isLocal, cfg) ==
  LET server_url == Strip(Strip(cfg.serve_files_url, {"/"}), Whitespace)
  IN IF isLocal /\ cfg.serve_files /\ server_url # <<>>
       THEN routes \cup {<<app.id, server_url>>}
       ELSE routes

\* an init_app that constructs the driver before it checks the directory
InitAppConstructingFirst(f, app) ==
  /\ f \in Originals
  /\ pc[f] = "idle"
  /\ nops' = nops + 1
  /\ config' = [serve_files |-> app.serve_files,
                serve_files_url |-> app.serve_files_url]
  /\ IF app.provider = ""
       THEN /\ ret' = [ret EXCEPT ![f] = Result("init_app", "ValueError", <<app.id>>)]
            /\ UNCHANGED <<facade, routes>>
       ELSE IF app.container \notin Dirs
         THEN /\ facade' = [facade EXCEPT ![f] =
                               [Construct(f, AppKw(app)) EXCEPT
                                  !.container = facade[f].container]]
              /\ ret' = [ret EXCEPT ![f] =
                           Result("init_app",
                                  IF app.provider = "LOCAL"
                                    THEN "IOError"
                                    ELSE "ContainerDoesNotExistError", <<app.id>>)]
              /\ UNCHANGED routes
         ELSE /\ facade' = [facade EXCEPT ![f] = Construct(f, AppKw(app))]
              /\ routes' = RegisterFileServer(app, app.provider = "LOCAL", config')
              /\ ret' = [ret EXCEPT ![f] = Result("init_app", "None", <<app.id>>)]
  /\ UNCHANGED <<store, pc, loc, hist, input>>

\* Storage.init_app: the serving options go into self.config, which is the
\* dictionary of the class; a missing provider raises ValueError and a
\* local container that is no directory raises IOError; then __init__
\* constructs the driver and resolves the container (the driver raises
\* when the container does not exist), and the file server is registered
InitApp(f, app) ==
  /\ f \in Originals
  /\ pc[f] = "idle"
  /\ nops' = nops + 1
  /\ config' = [serve_files |-> app.serve_files,
                serve_files_url |-> app.serve_files_url]
  /\ IF app.provider = ""
       THEN /\ ret' = [ret EXCEPT ![f] = Result("init_app", "ValueError", <<app.id>>)]
            /\ UNCHANGED <<facade, routes>>
       ELSE IF app.provider = "LOCAL" /\ app.container \notin Dirs
         THEN /\ ret' = [ret EXCEPT ![f] = Result("init_app", "IOError", <<app.id>>)]
              /\ UNCHANGED <<facade, routes>>
         ELSE IF app.container \notin Dirs
           THEN /\ facade' = [facade EXCEPT ![f] =
                                 [Construct(f, AppKw(app)) EXCEPT
                                    !.container = facade[f].container]]
                /\ ret' = [ret EXCEPT ![f] =
                             Result("init_app", "ContainerDoesNotExistError", <<app.id>>)]
                /\ UNCHANGED routes
           ELSE /\ facade' = [facade EXCEPT ![f] = Construct(f, AppKw(app))]
                /\ routes' = RegisterFileServer(app, app.provider = "LOCAL", config')
                /\ ret' = [ret EXCEPT ![f] = Result("init_app", "None", <<app.id>>)]
  /\ UNCHANGED <<store, pc, loc, hist, input>>

\* what a facade sees as its configuration: self.config (no instance has a
\* dictionary of its own), self.allowed_extensions (the list of the class
\* until __init__ sets one) and the constructor parameters self._kw
ObservedConfig(f) ==
  [config |-> config,
   allowed_extensions |-> IF facade[f] = NoFacade
                            THEN DefaultAllowedExtensions
                            ELSE facade[f].allowed_extensions,
   kw |-> facade[f].kw]

InitConf ==
  /\ store = [c \in Containers |-> <<>>]
  /\ facade = [f \in Facades |-> NoFacade]
  /\ pc = [f \in Facades |-> "idle"]
  /\ loc = [f \in Facades |-> NoLoc]
  /\ ret = [f \in Facades |-> NoRet]
  /\ nops = 0
  /\ hist = <<>>
  /\ input = NoInput
  /\ config = NoConfig
  /\ routes = {}

NextConf ==
  \/ \E f \in Originals, app \in Apps : CanStart /\ InitApp(f, app)
  \/ \E f \in Originals, c \in Containers : CanStart /\ Use(f, c)
  \/ UseExit

SpecConf == InitConf /\ [][NextConf]_vars

\* ------------------------------------------------------------------ claims

\* the whitelist in effect for an upload through f with the per-call list a
EffectiveWhitelist(f, a) == IF a # NoAllowed THEN a ELSE facade[f].allowed_extensions

\* the upload in flight on f has a source whose lowercased extension is not
\* in the whitelist in effect
Rejected(f) ==
  Lower(get_file_extension(loc[f].file.filename))
    \notin EffectiveWhitelist(f, loc[f].allowed_extensions)

\* C1: an upload whose source extension, lowercased, is not in the effective
\* whitelist (the per-call list, else the facade's) never reaches the
\* driver's upload; none of its steps changes a container; when it ends it
\* raises InvalidExtensionError (or the error of a driver query made by
\* _safe_object_name), with overwrite true and false alike.
C1_RejectedNeverStored ==
  /\ [](\A f \in Facades :
          pc[f] \in {"safe", "put"} /\ Rejected(f) => pc[f] # "put")
  /\ [][\A f \in Facades :
          /\ pc[f] = "safe"
          /\ Rejected(f)
          /\ <<pc[f], loc[f]>>' # <<pc[f], loc[f]>>
          => /\ store' = store
             /\ pc'[f] \in {"safe", "idle"}
             /\ pc'[f] = "idle" =>
                  ret'[f].kind \in {"InvalidExtensionError", "DriverError"}]_vars
  /\ [][\A f \in Facades, file \in Files, name \in Names,
           allowed \in AllowedArgs, overwrite \in BOOLEAN :
          /\ UploadBegin(f, file, name, NoPrefix, allowed, overwrite, FALSE, NoAcl,
                      NoMeta)
          /\ Lower(get_file_extension(file.filename))
               \notin EffectiveWhitelist(f, allowed)
          => /\ store' = store
             /\ pc'[f] # "put"
             /\ overwrite => /\ pc'[f] = "idle"
                             /\ ret'[f].kind = "InvalidExtensionError"]_vars

\* an upload without overwrite was refused for its extension while the
\* container holds an object, and another was refused with overwrite
C1_Witness ==
  /\ DOMAIN store["c1"] # {}
  /\ \E f, g \in Facades :
       /\ ret[f].op = "upload" /\ ret[f].kind = "InvalidExtensionError"
       /\ ~ret[f].overwrite
       /\ ret[g].op = "upload" /\ ret[g].kind = "InvalidExtensionError"
       /\ ret[g].overwrite

\* the history holds only uploads without overwrite: the same source was
\* uploaded under the same name Len(hist) times, nothing was deleted
OnlyPlainUploads ==
  \A i \in 1..Len(hist) : hist[i].op = "upload" /\ ~hist[i].overwrite

\* the names base__token.ext, base and ext being those of the name n
Disambiguated(n) ==
  {splitext(n)[1] \o <<"_", "_">> \o token \o <<".">> \o get_file_extension(n) :
     token \in Tokens}

\* the name is one that upload keeps as it is given: it has an extension,
\* no '/' or blank at either end and, on the local driver, only characters
\* that secure_filename keeps
KeptAsGiven(n, isLocal) ==
  /\ n # NoName
  /\ get_file_extension(n) # <<>>
  /\ Strip(Strip(n, {"/"}), Whitespace) = n
  /\ isLocal => secure_filename(n) = n

\* C2: with one caller, k uploads of the same source under the same name
\* without overwrite give k pairwise distinct names that all exist in the
\* container; the first is the name upload derives from the request (the
\* requested name itself when upload keeps it as given, no prefix), every
\* later one is base__token.ext with one token, base and ext being those of
\* the first.
C2_DistinctNames ==
  OnlyPlainUploads =>
    /\ \A i, j \in 1..Len(hist) : i < j => hist[i].name # hist[j].name
    /\ \A i \in 1..Len(hist) : hist[i].name \in DOMAIN store[hist[i].cont]
    /\ Len(hist) >= 1 =>
         /\ hist[1].name = InputName
         /\ KeptAsGiven(input.name, IsLocal(Caller)) /\ input.prefix = NoPrefix
              => hist[1].name = input.name
    /\ \A i \in 2..Len(hist) : hist[i].name \in Disambiguated(hist[1].name)

\* three uploads without overwrite of a name that upload keeps as given
C2_Witness ==
  /\ OnlyPlainUploads
  /\ Len(hist) = 3
  /\ KeptAsGiven(input.name, IsLocal(Caller))
  /\ input.prefix = NoPrefix
  /\ pc[Caller] = "idle"

\* f and g are different facades whose uploads without overwrite have both
\* passed the existence check of _safe_object_name with the same name of the
\* same container
BothPassedCheck(f, g) ==
  /\ f # g
  /\ pc[f] = "put" /\ pc[g] = "put"
  /\ ~loc[f].overwrite /\ ~loc[g].overwrite
  /\ facade[f].container = facade[g].container
  /\ loc[f].object_name = loc[g].object_name

\* C3: the check-then-act race. Uploads without overwrite on two facades can
\* both have passed the existence check with the same name; nothing then
\* holds either back (the driver's upload of each is enabled), and an upload
\* without overwrite that finds its name taken at the time of its write
\* replaces the object of that name: the set of names is unchanged, one
\* object of that name remains, and it is the later writer's.
C3_CheckThenActRace ==
  /\ [](\A f, g \in Facades :
          BothPassedCheck(f, g) => ENABLED UploadPut(f) /\ ENABLED UploadPut(g))
  /\ [][\A f \in Facades :
          /\ pc[f] = "put"
          /\ ~loc[f].overwrite
          /\ pc'[f] = "idle"
          /\ loc[f].object_name \in DOMAIN store[facade[f].container]
          => LET c == facade[f].container
                 n == loc[f].object_name
             IN /\ DOMAIN store'[c] = DOMAIN store[c]
                /\ store'[c][n].by = f
                /\ store[c][n].by # f
                /\ ret'[f].kind = "Object"
                /\ ret'[f].name = n]_vars

\* both uploads passed the check with the same name, one has written it and
\* returned, the other is about to write it
C3_Witness ==
  \E f, g \in Facades :
    /\ f # g
    /\ pc[f] = "put" /\ ~loc[f].overwrite
    /\ pc[g] = "idle"
    /\ ret[g].op = "upload" /\ ret[g].kind = "Object" /\ ~ret[g].overwrite
    /\ ret[g].cont = facade[f].container
    /\ ret[g].name = loc[f].object_name
    /\ loc[f].object_name \in DOMAIN store[facade[f].container]
    /\ store[facade[f].container][loc[f].object_name].by = g
    /\ nops = 2

\* C4: get(name) returns None, and never raises the driver's not-found
\* error, when the object is absent at the time the driver is queried, in
\* every interleaving with the deletes of other facades.
C4_GetNeverRaisesNotFound ==
  \A f \in Facades : ret[f].op = "get" => ret[f].kind # "ObjectDoesNotExistError"

\* C5: __contains__ answers True only when the object is in the active
\* container and False only when it is not, lets another driver error
\* through, and changes no container.
C5_ContainsIsMembership ==
  [][\A f \in Facades, n \in QueryNames :
       Contains(f, n) =>
         /\ store' = store
         /\ ret'[f].op = "contains"
         /\ ret'[f].kind \in {"Bool", "DriverError"}
         /\ ret'[f].kind = "Bool" =>
              ret'[f].bool = (n \in DOMAIN store[facade[f].container])]_vars

\* contains has answered True on one facade and has let a driver error
\* through on another, for an object that is in the container
C5_Witness ==
  \E f, g \in Facades :
    /\ ret[f].op = "contains" /\ ret[f].kind = "Bool" /\ ret[f].bool
    /\ ret[g].op = "contains" /\ ret[g].kind = "DriverError"
    /\ ret[g].arg \in DOMAIN store[facade[g].container]

\* C6: the facade caches nothing. Whatever was uploaded or deleted before,
\* through this facade or another, len answers the current number of
\* objects of the active container, an iteration yields every current
\* object once, contains answers the current membership and get goes on to
\* fetch exactly when the object is there now; and no change of a container
\* changes a facade.
C6_NoCache ==
  /\ [][\A f \in Facades :
          LET objs == DOMAIN store[facade[f].container]
          IN /\ Length(f) => ret'[f].kind = "Int" /\ ret'[f].int = Cardinality(objs)
             /\ Iterate(f) =>
                  /\ ret'[f].kind = "List"
                  /\ Range(ret'[f].list) = objs
                  /\ Len(ret'[f].list) = Cardinality(objs)
             /\ \A n \in QueryNames :
                  /\ Contains(f, n) /\ ret'[f].kind = "Bool" =>
                       ret'[f].bool = (n \in objs)
                  /\ GetBegin(f, n) /\ ret'[f].kind # "DriverError" =>
                       IF n \in objs
                         THEN pc'[f] = "fetch"
                         ELSE pc'[f] = "idle" /\ ret'[f].kind = "None"]_vars
  /\ [][store' # store => facade' = facade]_vars

\* len through one facade counts an object that another facade uploaded
C6_Witness ==
  \E f \in Facades :
    /\ ret[f].op = "len"
    /\ ret[f].int = 1
    /\ \E n \in DOMAIN store[facade[f].container] :
         store[facade[f].container][n].by # f

\* C7: with overwrite, upload stores the object under the prefix and the
\* extension-completed name joined by exactly one '/', whatever '/' the
\* prefix has at its ends, and the container then holds that name.
C7_PrefixJoinedByOneSeparator ==
  /\ ret[Caller].op = "upload"
  /\ ret[Caller].kind = "Object"
  /\ ret[Caller].overwrite
  /\ input.name # NoName
  /\ input.prefix # NoPrefix
  => /\ ret[Caller].name =
          Strip(input.prefix, {"/"}) \o <<"/">>
            \o DerivedName(input.file, input.name, NoPrefix, IsLocal(Caller))
     /\ ret[Caller].name \in DOMAIN store[facade[Caller].container]

\* the last change of the container was an upload with overwrite
LastIsOverwriteUpload ==
  /\ Len(hist) >= 1
  /\ hist[Len(hist)].op = "upload"
  /\ hist[Len(hist)].overwrite

\* upload with overwrite returns an Object named as requested, and a get of
\* that name that follows returns an Object of that name
RoundTrip ==
  /\ ret[Caller].op = "upload" /\ ret[Caller].kind = "Object" /\ ret[Caller].overwrite
       => /\ ret[Caller].name = input.name
          /\ input.name \in DOMAIN store[facade[Caller].container]
  /\ ret[Caller].op = "get" /\ ret[Caller].arg = input.name /\ LastIsOverwriteUpload
       => /\ ret[Caller].kind \in {"Object", "DriverError"}
          /\ ret[Caller].kind = "Object" => ret[Caller].name = input.name

\* C8 as stated: the round trip for every object name N.
C8_RoundTripEveryName ==
  input.name # NoName /\ input.prefix = NoPrefix => RoundTrip

\* C8, amended: the round trip for every name that upload keeps as given
\* (it has an extension, no '/' or blank at either end and, on the local
\* driver, is unchanged by secure_filename), uploaded without prefix; and
\* after uploads with overwrite only, of any name, the container holds
\* exactly one object, the one of the derived name.
C8_RoundTripKeptNames ==
  /\ KeptAsGiven(input.name, IsLocal(Caller)) /\ input.prefix = NoPrefix => RoundTrip
  /\ Len(hist) >= 1 /\ (\A i \in 1..Len(hist) : hist[i].op = "upload" /\ hist[i].overwrite)
       => DOMAIN store[facade[Caller].container] = {InputName}

\* a name kept as given was uploaded twice with overwrite and then got
C8_Witness ==
  /\ KeptAsGiven(input.name, IsLocal(Caller))
  /\ input.prefix = NoPrefix
  /\ Len(hist) = 2
  /\ hist[1].overwrite /\ hist[2].overwrite
  /\ ret[Caller].op = "get"
  /\ ret[Caller].arg = input.name
  /\ ret[Caller].kind = "Object"

\* C9: isolation under use(). No step changes an original facade (its
\* driver, its container); use yields a facade of its own driver bound to
\* the container asked for, and touches no container; the upload of a
\* facade writes only the container that facade is bound to; and contains
\* on a facade answers False for an object that only another container
\* holds.
C9_UseIsolation ==
  /\ [][\A f \in Originals : facade'[f] = facade[f]]_vars
  /\ [](facade[ScopedId] # NoFacade =>
          facade[ScopedId].driver \notin {facade[f].driver : f \in Originals})
  /\ [][\A f \in Originals, c \in Containers :
          Use(f, c) => /\ facade'[ScopedId].container = c
                       /\ facade'[ScopedId].provider = facade[f].provider
                       /\ store' = store]_vars
  /\ [][\A f \in Facades :
          UploadPut(f) =>
            /\ ret'[f].cont = facade[f].container
            /\ ret'[f].name = loc[f].object_name
            /\ loc[f].object_name \in DOMAIN store'[facade[f].container]
            /\ \A c \in Containers \ {facade[f].container} : store'[c] = store[c]]_vars
  /\ [][\A f \in Facades, n \in QueryNames :
          /\ Contains(f, n)
          /\ n \notin DOMAIN store[facade[f].container]
          /\ \E c \in Containers : n \in DOMAIN store[c]
          => ret'[f].kind = "DriverError"
               \/ (ret'[f].kind = "Bool" /\ ~ret'[f].bool)]_vars

\* the scope has ended; an object uploaded in it is in the other container
\* only, and an original facade has uploaded, under the name it derived, an
\* object that is in its own container only
C9_Witness ==
  /\ facade[ScopedId] = NoFacade
  /\ ret[ScopedId].op = "upload" /\ ret[ScopedId].kind = "Object"
  /\ ret[ScopedId].cont = "c2"
  /\ ret[ScopedId].name \in DOMAIN store["c2"] \ DOMAIN store["c1"]
  /\ \E f \in Originals :
       /\ ret[f].op = "upload" /\ ret[f].kind = "Object"
       /\ ret[f].cont = "c1"
       /\ ret[f].name \in DOMAIN store["c1"] \ DOMAIN store["c2"]

\* C10: a delete that succeeds removes the object of that name from its
\* container and leaves every other object and container as it was; a name
\* that is absent comes (back) into a container only by the write of an
\* upload of that name on a facade bound to it; and while the name is
\* absent, contains answers False and get answers None on every facade
\* bound to the container.
C10_DeleteRemoves ==
  /\ [][\A f \in Facades :
          Delete(f) /\ ret'[f].kind = "Bool" =>
            LET c == ret[f].cont
                n == ret[f].name
            IN /\ n \notin DOMAIN store'[c]
               /\ DOMAIN store'[c] = DOMAIN store[c] \ {n}
               /\ \A k \in DOMAIN store'[c] : store'[c][k] = store[c][k]
               /\ \A d \in Containers \ {c} : store'[d] = store[d]]_vars
  /\ [][\A c \in Containers :
          \A n \in DOMAIN store'[c] \ DOMAIN store[c] :
            \E f \in Facades :
              /\ pc[f] = "put" /\ pc'[f] = "idle"
              /\ facade[f].container = c
              /\ loc[f].object_name = n]_vars
  /\ [][\A f \in Facades, n \in QueryNames :
          facade[f] # NoFacade /\ n \notin DOMAIN store[facade[f].container] =>
            /\ Contains(f, n) =>
                 ret'[f].kind = "DriverError"
                   \/ (ret'[f].kind = "Bool" /\ ~ret'[f].bool)
            /\ GetBegin(f, n) =>
                 /\ pc'[f] = "idle"
                 /\ ret'[f].kind \in {"None", "DriverError"}]_vars

\* an object was deleted through the Object its upload returned, and
\* another object of the container is still there
C10_Witness ==
  \E f \in Facades :
    /\ ret[f].op = "delete" /\ ret[f].kind = "Bool"
    /\ ret[f].arg \notin DOMAIN store[ret[f].cont]
    /\ DOMAIN store[ret[f].cont] # {}

\* C11: create contacts no backend. A create step always returns an Object
\* of the name and size given (no driver outcome can make it fail), leaves
\* every container as it was, and a create with the arguments of the create
\* before it yields an Object with the same name, size, extension, type and
\* path; and contains answers True only for a name that an upload wrote,
\* whatever was created.
C11_CreateIsLocal ==
  /\ [][\A n \in ArgNames \ {NoName}, size \in Sizes :
          Create(Caller, n, size) =>
            /\ store' = store
            /\ ret'[Caller].kind = "Object"
            /\ ret'[Caller].name = n
            /\ ret'[Caller].size = size
            /\ ret'[Caller].cont = facade[Caller].container
            /\ (ret[Caller].op = "create" /\ ret[Caller].arg = n
                  /\ ret[Caller].size = size
                => ObjectFields(ret'[Caller]) = ObjectFields(ret[Caller]))]_vars
  /\ [](ret[Caller].op = "contains" /\ ret[Caller].kind = "Bool" /\ ret[Caller].bool
          => \E i \in 1..Len(hist) :
               hist[i].op = "upload" /\ hist[i].name = ret[Caller].arg)

\* a name was created twice and contains then answered False for it
C11_Witness ==
  /\ Len(hist) = 2
  /\ hist[1].op = "create" /\ hist[2].op = "create"
  /\ hist[1].name = hist[2].name
  /\ ret[Caller].op = "contains"
  /\ ret[Caller].arg = hist[1].name
  /\ ret[Caller].kind = "Bool" /\ ~ret[Caller].bool

\* a name that neither begins nor ends with '/'
NoSeparatorAtEnds(n) ==
  n # <<>> => n[1] # "/" /\ n[Len(n)] # "/"

\* C12: every Object that create, upload or get returns has a name that
\* neither begins nor ends with '/'.
C12_NameWithoutSeparatorAtEnds ==
  ret[Caller].kind = "Object" /\ ret[Caller].op \in {"create", "upload", "get"}
    => NoSeparatorAtEnds(ret[Caller].name)

\* neither the source nor the name of the input has an extension
InputWithoutExtension ==
  /\ get_file_extension(input.file.filename) = <<>>
  /\ input.name = NoName \/ get_file_extension(input.name) = <<>>

\* an upload whose source and name have no extension fails and stores nothing
ExtensionlessUploadFails ==
  InputWithoutExtension =>
    /\ \A c \in Containers : DOMAIN store[c] = {}
    /\ ret[Caller].op = "upload" =>
         ret[Caller].kind \in {"InvalidExtensionError", "DriverError"}

\* C13: every object that upload has put into the container has a name with
\* a non-empty extension, and an upload whose source and name have no
\* extension fails and stores nothing.
C13_StoredNamesHaveExtension ==
  /\ \A c \in Containers : \A n \in DOMAIN store[c] : get_file_extension(n) # <<>>
  /\ ExtensionlessUploadFails

\* C14 as stated: upload adds acl='public-read' exactly when public is true
\* and no acl was supplied; otherwise the extra metadata reaching the driver
\* is exactly what the caller supplied.
C14_AclAddedOnlyWhenPublic ==
  \A c \in Containers : \A n \in DOMAIN store[c] :
    /\ store[c][n].acl = IF input.acl = NoAcl /\ input.public
                           THEN "public-read"
                           ELSE input.acl
    /\ store[c][n].meta_data = input.meta_data

\* the acl upload is to hand to the driver, from its docstring: "public:
\* bool - To set acl to private or public-read. Having acl in kwargs will
\* override it"
DocumentedAcl(public, acl) ==
  IF acl # NoAcl THEN acl ELSE IF public THEN "public-read" ELSE "private"

\* C14, amended: when the caller supplied no acl, upload adds
\* acl='public-read' if public is true and acl='private' if it is not; a
\* caller-supplied acl is passed through unchanged whatever public is; every
\* other key of the extra metadata reaches the driver as supplied.
C14_AclDefaultsToPrivate ==
  \A c \in Containers : \A n \in DOMAIN store[c] :
    /\ store[c][n].acl = DocumentedAcl(input.public, input.acl)
    /\ store[c][n].meta_data = input.meta_data

\* an upload with public true and an acl of the caller's has been stored
C14_Witness ==
  /\ input.public
  /\ input.acl = "authenticated-read"
  /\ input.meta_data = "m"
  /\ ret[Caller].op = "upload" /\ ret[Caller].kind = "Object"
  /\ ret[Caller].name \in DOMAIN store[ret[Caller].cont]
  /\ store[ret[Caller].cont][ret[Caller].name].acl = "authenticated-read"

\* C15: facades share no mutable state. An init_app on one facade, or a
\* use() through it, leaves the configuration that another facade, already
\* initialised, observes (serve_files, serve_files_url, allowed_extensions,
\* constructor parameters) as it was.
C15_ConfigurationIsPrivate ==
  [][\A f \in Originals, g \in Originals :
       /\ g # f
       /\ facade[g] # NoFacade
       /\ \/ \E app \in Apps : InitApp(f, app)
          \/ \E c \in Containers : Use(f, c)
       => ObservedConfig(g)' = ObservedConfig(g)]_vars

\* the configuration errors of init_app
ConfigurationError(app) ==
  IF app.provider = "" THEN "ValueError"
  ELSE IF app.provider = "LOCAL" /\ app.container \notin Dirs THEN "IOError"
  ELSE "none"

\* C16: init_app fails with ValueError when the provider is missing and with
\* IOError when the provider is local and the container is not an existing
\* directory; the failing call leaves the facade as it was (a facade not yet
\* initialised keeps no driver and no container), constructs no driver,
\* resolves no container and registers no route.
C16_InitAppFailsBeforeDriver ==
  /\ [][\A f \in Originals, app \in Apps :
          InitApp(f, app) /\ ConfigurationError(app) # "none" =>
            /\ ret'[f].kind = ConfigurationError(app)
            /\ facade' = facade
            /\ store' = store
            /\ routes' = routes]_vars
  /\ [](\A f \in Originals :
          ret[f].op = "init_app" /\ ret[f].kind \in {"ValueError", "IOError"}
            /\ nops = 1
          => facade[f].driver = "" /\ facade[f].container = "")

\* one facade has failed on a missing provider and the other on a missing
\* directory, and neither has a driver or a container
C16_Witness ==
  \E f \in Originals, g \in Originals :
    /\ ret[f].op = "init_app" /\ ret[f].kind = "ValueError"
    /\ ret[g].op = "init_app" /\ ret[g].kind = "IOError"
    /\ facade[f] = NoFacade /\ facade[g] = NoFacade

\* C17: download_url dispatches on the backend: for the local driver (its
\* file server registered) a URL of the file server with the forced-download
\* flag, for S3 and Google the secure URL followed by a signed query, for
\* Cloudfiles the driver's temporary URL, and for every other backend the
\* unsupported-operation error, NotImplementedError, and no URL.
C17_DownloadUrlDispatch ==
  [][\A name \in SaveNames :
       DownloadUrl(Caller, name) =>
         LET r == ret'[Caller]
             p == input.provider
         IN IF p = "LOCAL"
              THEN input.served =>
                     /\ r.kind = "Url"
                     /\ HasSub(r.url, <<"/","f","i","l","e","s","/">> \o input.name)
                     /\ HasSub(r.url, <<"d","l","=","1">>)
            ELSE IF p \in {"S3", "GOOGLE_STORAGE"}
              THEN /\ r.kind = "Url"
                   /\ secure_url(input).kind = "Url"
                   /\ OccursAt(r.url, secure_url(input).url \o <<"?">>, 1)
                   /\ HasSub(r.url, <<"S","i","g","n","a","t","u","r","e","=">>)
            ELSE IF p = "CLOUDFILES"
              THEN r.kind = "Url" /\ r.url = <<"h","t","t","p","s",":","/","/","c",".","c","d","n",".","c","o","m","/","t","e","m","p","/">> \o input.name
            ELSE r.kind = "NotImplementedError" /\ r.url = <<>>]_vars

\* the URL built for a provider family when the driver has no native URL
FamilyUrl(provider, container, name) ==
  IF provider = "S3"
    THEN <<"h","t","t","p",":","/","/">> \o DriverHost \o <<"/">> \o container \o <<"/">> \o name
  ELSE IF provider = "GOOGLE_STORAGE"
    THEN <<"h","t","t","p",":","/","/","s","t","o","r","a","g","e",".","g","o","o","g","l","e","a","p","i","s",".","c","o","m">> \o <<"/">> \o container \o <<"/">> \o name
  ELSE IF provider = "AZURE_BLOBS"
    THEN <<"h","t","t","p",":","/","/">> \o DriverKey \o <<".","b","l","o","b",".","c","o","r","e",".","w","i","n","d","o","w","s",".","n","e","t">> \o <<"/">> \o container \o <<"/">> \o name
  ELSE <<>>

C19_SecureUrlIsHttps ==
  [][\A longurl \in BOOLEAN :
       GetUrl(Caller, TRUE, longurl) /\ get_url(input, FALSE, longurl).kind = "Url" =>
         LET r == ret'[Caller]
         IN /\ r.kind = "Url"
            /\ OccursAt(r.url, <<"h","t","t","p","s",":","/","/">>, 1)
            /\ input.provider = "CLOUDFILES" => r.url = CdnHttps(input.name)]_vars

\* C20: save_to raises IOError, and the driver is asked for no download,
\* when destination is not an existing directory; otherwise the driver is
\* asked for one download, and the call returns
\* '{destination}/{name}.{object extension}' when name is given and
\* '{destination}/{object name}' when it is not, or None, or the driver's
\* error.
C20_SaveToPath ==
  [][\A destination \in {TmpDir, MissingDir}, name \in SaveNames :
       SaveTo(Caller, destination, name) =>
         LET r == ret'[Caller]
         IN IF destination \notin LocalDirs
              THEN r.kind = "IOError" /\ hist' = hist
              ELSE /\ Len(hist') = Len(hist) + 1
                   /\ hist'[Len(hist')].op = "download"
                   /\ r.kind \in {"Path", "None", "LibcloudError"}
                   /\ r.kind = "Path" =>
                        r.url = IF name = NoName
                                  THEN destination \o <<"/">> \o input.name
                                  ELSE destination \o <<"/">> \o name \o <<".">>
                                         \o get_file_extension(input.name)]_vars

\* a/X.JPG has been saved under the name n: /tmp/n.jpg
C20_Witness ==
  /\ input.name = <<"a","/","X",".","J","P","G">>
  /\ ret[Caller].op = "save_to"
  /\ ret[Caller].kind = "Path"
  /\ ret[Caller].url = <<"/","t","m","p","/","n",".","j","p","g">>
  /\ Len(hist) = 1

\* the name the claim gives the object of a path upload: the base name of
\* the path without a name argument, the name completed by the source's
\* lowercased extension if it has none, the name itself otherwise
NameOfPathUpload ==
  LET base == SubSeq(input.file.filename, RFind(input.file.filename, "/") + 1,
                     Len(input.file.filename))
  IN IF input.name = NoName THEN base
     ELSE IF get_file_extension(input.name) = <<>>
       THEN input.name \o <<".">> \o Lower(get_file_extension(input.file.filename))
       ELSE input.name

\* the call that ended last on the caller's facade is an upload that stored
\* the object under the name it derived: with overwrite, or the only upload
LastUploadStoredDerived ==
  /\ ret[Caller].op = "upload"
  /\ ret[Caller].kind = "Object"
  /\ ret[Caller].overwrite \/ Len(hist) = 1

C22_StreamUploadName ==
  /\ LastUploadStoredDerived
  /\ input.file.stream
  /\ input.name = NoName
  => LET base == get_file_name(input.file.filename)
         slug == slugify(splitext(base)[1])
     IN /\ ret[Caller].name
             = slug \o <<".">> \o Lower(get_file_extension(input.file.filename))
        /\ slug = splitext(base)[1] => ret[Caller].name = input.file.filename

\* the step in which an upload without overwrite hands the object to the driver
PlainUploadStores ==
  /\ pc[Caller] = "put"
  /\ pc'[Caller] = "idle"
  /\ ~loc[Caller].overwrite

\* C23: with one caller, _safe_object_name returns its argument unchanged
\* when that name is absent and otherwise a name that is absent from the
\* active container; an upload without overwrite leaves every existing
\* object as it was and adds exactly one object to the container.
C23_SafeNameIsAbsent ==
  [][LET c == facade[Caller].container
     IN /\ SafeObjectNameReturns =>
             /\ loc[Caller].object_name \notin DOMAIN store[c]
             /\ InputName \notin DOMAIN store[c] => loc[Caller].object_name = InputName
        /\ PlainUploadStores =>
             /\ \A k \in DOMAIN store[c] :
                  k \in DOMAIN store'[c] /\ store'[c][k] = store[c][k]
             /\ Cardinality(DOMAIN store'[c]) = Cardinality(DOMAIN store[c]) + 1
             /\ ret'[Caller].kind = "Object"
             /\ ret'[Caller].name \in DOMAIN store'[c] \ DOMAIN store[c]]_vars

\* after an upload with overwrite, an upload without overwrite of the same
\* source stored a second object under a disambiguated name
C23_Witness ==
  /\ Len(hist) = 2
  /\ hist[1].op = "upload" /\ hist[1].overwrite
  /\ hist[2].op = "upload" /\ ~hist[2].overwrite
  /\ hist[1].name = InputName
  /\ hist[2].name \in Disambiguated(InputName)
  /\ DOMAIN store[facade[Caller].container] = {hist[1].name, hist[2].name}
  /\ pc[Caller] = "idle"

\* C24: after any sequence of successful uploads through a facade, every
\* object they put into the container has a name whose lowercased extension
\* is in the whitelist in effect for its upload, also when the name given
\* has another extension than the source.
C24_StoredExtensionsAllowed ==
  \A n \in DOMAIN store[facade[Caller].container] :
    Lower(get_file_extension(n)) \in EffectiveWhitelist(Caller, input.allowed)

\* a token is left: one of the names base__token.ext of the derived name is
\* not in the container
UnusedTokenExists ==
  \E n \in Disambiguated(InputName) :
    n \notin DOMAIN store[facade[Caller].container]

\* C25: when a token not yet used is eventually drawn, the loop of
\* _safe_object_name eventually ends, and the upload that called it
\* eventually returns an Object or raises; as long as the name exists the
\* loop can go round again, whatever the number of rounds made.
C25_LoopTerminates ==
  /\ (pc[Caller] = "safe" /\ UnusedTokenExists) ~> (pc[Caller] # "safe")
  /\ ((pc[Caller] = "safe" /\ UnusedTokenExists) \/ pc[Caller] = "put")
       ~> /\ pc[Caller] = "idle"
          /\ ret[Caller].op = "upload"
          /\ ret[Caller].kind \in {"Object", "InvalidExtensionError", "DriverError"}
  /\ [](pc[Caller] = "safe"
        /\ loc[Caller].object_name \in DOMAIN store[facade[Caller].container]
        => ENABLED (SafeObjectName(Caller) /\ pc'[Caller] = "safe"))

\* the loop drew a token that is in use: the new name exists as well and the
\* loop has to go round again
C25_Witness ==
  /\ pc[Caller] = "safe"
  /\ loc[Caller].object_name \in Disambiguated(InputName)
  /\ loc[Caller].object_name \in DOMAIN store[facade[Caller].container]
  /\ UnusedTokenExists

====
